---- MODULE Spec2Model ----
(***************************************************************************)
(* Crosshair overlay: the shared overlay state (window handle + config)    *)
(* behind one mutex, the thread that owns the native window and runs its   *)
(* message loop, and the caller threads that run update_config,            *)
(* toggle_overlay and get_config (src-tauri/src/overlay.rs).               *)
(*                                                                         *)
(* A thread's pc names the statement it is executing.  The mutex guard of  *)
(* update_config, toggle_overlay and of the WM_PAINT arm lives until the   *)
(* end of the function (arm), so the lock is released by the last step.    *)
(*                                                                         *)
(* One WM_PAINT taken alone is the sequence of GDI calls that the arm and  *)
(* draw_crosshair make (SpecRender); the storage commands of lib.rs work   *)
(* on config.json and presets.json (SpecStore).                            *)
(*                                                                         *)
(* Numbers: i32 fields are integers (the bounded inputs stay far from the  *)
(* i32 limits); the f32 opacity is kept in hundredths (1.0 is 100).        *)
(***************************************************************************)
EXTENDS Integers, FiniteSets, Sequences, TLC

\* How many times create_overlay_window is called (run() calls it once, at
\* startup), and how many caller threads (command handlers, tray, hotkey
\* bridge) run the control surface.
MaxCreates == 1
NumCallers == 1

\* Thread ids: the thread spawned by the i-th create_overlay_window, and the
\* caller threads.
OwnerIds(n) == 1 .. n
CallerIds(m) == { 100 + i : i \in 1 .. m }

\* OverlayState.hwnd = None; a window's handle is the id of its owning thread.
NoHwnd == 0
\* The mutex of OVERLAY_STATE is free.
Unlocked == 0

\* The primary display (GetSystemMetrics(SM_CXSCREEN / SM_CYSCREEN)).
ScreenSizes == { <<1366, 768>> }

-----------------------------------------------------------------------------
\* CrosshairConfig

DefaultConfig ==
    [ enabled |-> TRUE, size |-> 10, thickness |-> 2, gap |-> 5,
      color |-> 65280, outline_color |-> 0, outline_thickness |-> 1,
      show_dot |-> TRUE, dot_size |-> 2, show_outline |-> TRUE,
      opacity |-> 100, style |-> "Classic", position_x |-> 0,
      position_y |-> 0, rotation |-> 0, t_length |-> 15,
      shadow_enabled |-> FALSE, shadow_color |-> 0, shadow_offset |-> 2,
      lines |-> << >> ]

\* The configs the callers pass to update_config: the default; one with
\* another bounding box, disabled and half opaque, that differs from the
\* default in every kind of field; one with the default's bounding box from
\* another size and gap, and an opacity above 1.0.
InputConfigs ==
    { DefaultConfig,
      [DefaultConfig EXCEPT !.enabled = FALSE, !.size = 20, !.thickness = 3,
                            !.opacity = 50, !.style = "Custom",
                            !.position_x = -3, !.show_dot = FALSE,
                            !.shadow_enabled = TRUE,
                            !.lines = << [start_x |-> -5, start_y |-> 0,
                                          end_x |-> 5, end_y |-> 0,
                                          thickness |-> 1, color |-> 255] >>],
      [DefaultConfig EXCEPT !.size = 11, !.gap = 4, !.opacity = 150,
                            !.style = "Circle", !.rotation = 45] }

\* Rust's integer division truncates toward zero.
TruncDiv(a, b) == IF a >= 0 THEN a \div b ELSE -((-a) \div b)

WindowSizeNoPadding(cfg) == (cfg.size + cfg.gap) * 2 + cfg.thickness * 2

\* (size + gap) * 2 + thickness * 2 + 20
WindowSize(cfg) == (cfg.size + cfg.gap) * 2 + cfg.thickness * 2 + 20

\* (screen - window_size) / 2 on each axis
CenteredX(scr, side) == TruncDiv(scr[1] - side, 2)
CenteredY(scr, side) == TruncDiv(scr[2] - side, 2)

\* (opacity * 255.0) as u8: the cast truncates and saturates.
Alpha(opacity) ==
    LET v == TruncDiv(opacity * 255, 100)
    IN  IF v < 0 THEN 0 ELSE IF v > 255 THEN 255 ELSE v

StoreConfigKeepEnabled(old, new) == [new EXCEPT !.enabled = old.enabled]

\* state.config = config.clone()
StoreConfig(old, new) == new

SetEnabledReset(cfg, e) == [DefaultConfig EXCEPT !.enabled = e]

\* state.config.enabled = enabled
SetEnabled(cfg, e) == [cfg EXCEPT !.enabled = e]

-----------------------------------------------------------------------------
VARIABLES
    screen,         \* the primary display's size
    config,         \* OVERLAY_STATE.config
    hwnd,           \* OVERLAY_STATE.hwnd (NoHwnd or a window handle)
    lock,           \* the thread holding the OVERLAY_STATE mutex, or Unlocked
    classRegistered,\* "CrosshairOverlayClass" is registered in the process
    pc,             \* each thread's position
    win,            \* the native window of each owning thread
    created,        \* history: the rectangle CreateWindowExW was called with
    createRet,      \* history: what create_overlay_window returned for a thread
    threadRes,      \* what the thread's closure returned: "Ok", or the call
                    \* whose error `?` returned
    arg,            \* a caller's argument: the config or the enabled flag
    loc,            \* a caller's locals and the record of its current call
    lastWrite,      \* history: the last write of the stored config
    painted,        \* history: what each window's last WM_PAINT rendered
    canvas,         \* one WM_PAINT taken alone: the config and client area
    frame,          \* ... and the GDI calls it made, in order
    disk,           \* the config directory: config.json and presets.json
    call,           \* the last storage command: its argument and its Result
    latest,         \* history: per preset id, the last preset saved and not
                    \* deleted since
    hotkey          \* the hotkey thread: which caller thread it is, where its
                    \* handler of a pressed F9 stands, and what it read, wrote
                    \* and published

overlayVars == << screen, config, hwnd, lock, classRegistered, pc, win,
                  created, createRet, threadRes, arg, loc, lastWrite,
                  painted, hotkey >>
renderVars == << canvas, frame >>
storeVars == << disk, call, latest >>

vars == << overlayVars, renderVars, storeVars >>

Owners == DOMAIN win
Callers == DOMAIN loc
Threads == DOMAIN pc

NoWindow == [exists |-> FALSE, x |-> 0, y |-> 0, side |-> 0, alpha |-> 0,
             dirty |-> FALSE]
NoRect == [x |-> 0, y |-> 0, side |-> 0]
NoArg == [cfg |-> DefaultConfig, enabled |-> FALSE]
NoWrite == [kind |-> "none", cfg |-> DefaultConfig, res |-> "none",
            had |-> FALSE]
\* No WM_PAINT has read the state yet; else done is TRUE, cfg is the config
\* the handler read and side the side of the client area.
NoPaint == [done |-> FALSE, cfg |-> DefaultConfig, side |-> 0]
\* old_size: update_config's local.  The rest records the call for the
\* properties: had (a handle was stored), swp (SetWindowPos: "no", "ok",
\* "fail"), alpha and inval (the call was made), res (the Result returned),
\* pre and pre_hwnd (the stored state when the call took the lock), got (the
\* clone get_config returns).
NoLoc == [old_size |-> 0, had |-> FALSE, pre |-> DefaultConfig,
          pre_hwnd |-> NoHwnd, swp |-> "no", alpha |-> FALSE,
          inval |-> FALSE, res |-> "none", got |-> DefaultConfig]

\* The process before any call: OverlayState::default() behind the mutex, no
\* thread spawned, n calls of create_overlay_window to come, m caller threads.
\* watch is the set of windows whose paints the history variable painted
\* records.
InitWith(n, m, watch) ==
    /\ screen \in ScreenSizes
    /\ config = DefaultConfig
    /\ hwnd = NoHwnd
    /\ lock = Unlocked
    /\ classRegistered = FALSE
    /\ pc = [t \in OwnerIds(n) \cup CallerIds(m) |->
                IF t \in OwnerIds(n) THEN "unspawned" ELSE "idle"]
    /\ win = [o \in OwnerIds(n) |-> NoWindow]
    /\ created = [o \in OwnerIds(n) |-> NoRect]
    /\ createRet = [o \in OwnerIds(n) |-> "none"]
    /\ threadRes = [o \in OwnerIds(n) |-> "none"]
    /\ arg = [c \in CallerIds(m) |-> NoArg]
    /\ loc = [c \in CallerIds(m) |-> NoLoc]
    /\ lastWrite = NoWrite
    /\ painted = [o \in watch |-> NoPaint]

\* No hotkey thread is looked at: thread is no caller thread.  Else stage is
\* the statement the handler of a pressed F9 is at, new_enabled its local,
\* before and after the stored enabled flag around its write, published the
\* payload of its last "crosshair-toggled" event once one is emitted, presses
\* the F9 presses handled.
NoHotkey == [thread |-> 0, stage |-> "try_recv", new_enabled |-> FALSE,
             before |-> FALSE, after |-> FALSE, emitted |-> FALSE,
             published |-> FALSE, presses |-> 0]
HotkeyIdle == hotkey = NoHotkey

\* No WM_PAINT is looked at alone.
NoCanvas == [cfg |-> DefaultConfig, side |-> 0]
NoFrame == [done |-> FALSE, center |-> << 0, 0 >>, ops |-> << >>]
RenderIdle ==
    /\ canvas = NoCanvas
    /\ frame = NoFrame

\* No storage command is looked at: no config directory, nothing called.
NoDisk == [dir |-> FALSE]
NoCall == [op |-> "none"]
StoreIdle ==
    /\ disk = NoDisk
    /\ call = NoCall
    /\ latest = << >>

Init ==
    /\ InitWith(MaxCreates, NumCallers, {})
    /\ HotkeyIdle
    /\ RenderIdle
    /\ StoreIdle

\* init_overlay is a command too: the front end can call it once more.
InitRecreate ==
    /\ InitWith(MaxCreates + 1, NumCallers, {})
    /\ HotkeyIdle
    /\ RenderIdle
    /\ StoreIdle

\* The same process with the paints of every window recorded.
InitPaint ==
    /\ InitWith(MaxCreates, NumCallers, OwnerIds(MaxCreates))
    /\ HotkeyIdle
    /\ RenderIdle
    /\ StoreIdle

-----------------------------------------------------------------------------
\* The owning thread: the closure spawned by create_overlay_window.

\* create_overlay_window: spawn the thread, drop its JoinHandle, return Ok(()).
\* Nothing guards a second call: each call spawns one more thread.
CreateOverlayWindow(c, o) ==
    /\ pc[c] = "idle"
    /\ pc[o] = "unspawned"
    /\ \A p \in Owners : p < o => pc[p] # "unspawned"
    /\ pc' = [pc EXCEPT ![o] = "register"]
    /\ createRet' = [createRet EXCEPT ![o] = "Ok"]
    /\ UNCHANGED << renderVars, storeVars, painted,
                    screen, config, hwnd, lock, classRegistered, win, created,
                    threadRes, arg, loc, lastWrite >>

\* The closure returns (by `?` with an error, or at its end): the thread ends,
\* and the system destroys the windows the thread still owns.
ThreadExit(o, r) ==
    /\ pc' = [pc EXCEPT ![o] = "exited"]
    /\ threadRes' = [threadRes EXCEPT ![o] = r]
    /\ win' = [win EXCEPT ![o] = NoWindow]

\* GetModuleHandleW(None)?, LoadCursorW(None, IDC_ARROW)?, then
\* RegisterClassExW(&wc), whose result is not looked at.  Registration fails
\* when the class is registered already, and may fail otherwise.
OwnerRegisterClass(o) ==
    /\ pc[o] = "register"
    /\ \/ /\ ThreadExit(o, "ErrModule")
          /\ UNCHANGED classRegistered
       \/ /\ \E ok \in BOOLEAN : classRegistered' = (classRegistered \/ ok)
          /\ pc' = [pc EXCEPT ![o] = "create"]
          /\ UNCHANGED << win, threadRes >>
    /\ UNCHANGED << renderVars, storeVars, painted,
                    screen, config, hwnd, lock, created, createRet, arg, loc,
                    lastWrite >>

\* The rectangle of the new window, from the default config.
CreateRect(scr) ==
    LET window_size == WindowSize(DefaultConfig)
    IN  [x |-> CenteredX(scr, window_size), y |-> CenteredY(scr, window_size),
         side |-> window_size]

\* CreateWindowExW(..., WS_POPUP | WS_VISIBLE, x, y, window_size, window_size,
\* ...)?: fails when the class is not registered, and may fail otherwise.  The
\* visible new window has all of its client area to paint.
OwnerCreateWindow(o) ==
    /\ pc[o] = "create"
    /\ \/ /\ ThreadExit(o, "ErrCreateWindow")
          /\ UNCHANGED created
       \/ /\ classRegistered
          /\ LET r == CreateRect(screen)
             IN  /\ win' = [win EXCEPT ![o] =
                        [exists |-> TRUE, x |-> r.x, y |-> r.y,
                         side |-> r.side, alpha |-> 255, dirty |-> TRUE]]
                 /\ created' = [created EXCEPT ![o] = r]
          /\ pc' = [pc EXCEPT ![o] = "layered"]
          /\ UNCHANGED threadRes
    /\ UNCHANGED << renderVars, storeVars, painted,
                    screen, config, hwnd, lock, classRegistered, createRet,
                    arg, loc, lastWrite >>

\* SetLayeredWindowAttributes(hwnd, 0, (default_config.opacity * 255.0) as u8,
\* LWA_COLORKEY | LWA_ALPHA)?
OwnerSetLayered(o) ==
    /\ pc[o] = "layered"
    /\ \/ ThreadExit(o, "ErrLayered")
       \/ /\ win' = [win EXCEPT ![o].alpha = Alpha(DefaultConfig.opacity)]
          /\ pc' = [pc EXCEPT ![o] = "publish"]
          /\ UNCHANGED threadRes
    /\ UNCHANGED << renderVars, storeVars, painted,
                    screen, config, hwnd, lock, classRegistered, created,
                    createRet, arg, loc, lastWrite >>

PublishedNothing(o) == NoHwnd

\* The handle the owning thread stores: Some(hwnd) of its window.
Published(o) == o

\* { let mut state = OVERLAY_STATE.lock().unwrap(); state.hwnd = Some(hwnd); }
OwnerPublish(o) ==
    /\ pc[o] = "publish"
    /\ lock = Unlocked
    /\ hwnd' = Published(o)
    /\ pc' = [pc EXCEPT ![o] = "show"]
    /\ UNCHANGED << renderVars, storeVars, painted,
                    screen, config, lock, classRegistered, win, created,
                    createRet, threadRes, arg, loc, lastWrite >>

\* window_proc, WM_PAINT, up to the lock: BeginPaint (the update region is
\* validated), GetClientRect, FillRect with the black brush.
BeginPaint(o) ==
    /\ win' = [win EXCEPT ![o].dirty = FALSE]
    /\ pc' = [pc EXCEPT ![o] = "paint_lock"]

\* ShowWindow(hwnd, SW_SHOW); UpdateWindow(hwnd): UpdateWindow calls window_proc
\* with WM_PAINT when there is something to paint; then the loop is entered.
OwnerShowUpdate(o) ==
    /\ pc[o] = "show"
    /\ IF win[o].dirty
         THEN BeginPaint(o)
         ELSE /\ pc' = [pc EXCEPT ![o] = "loop"]
              /\ UNCHANGED win
    /\ UNCHANGED << renderVars, storeVars, painted,
                    screen, config, hwnd, lock, classRegistered, created,
                    createRet, threadRes, arg, loc, lastWrite >>

\* A caller thread is inside SetWindowPos on this thread's window: the call
\* sends the window its position messages and waits until the owning thread
\* takes them, which it does in GetMessageW only.
SentPending(o) ==
    \E c \in Callers : pc[c] = "SetWindowPos_wait" /\ hwnd = o

\* GetMessageW returns WM_PAINT (no sent message is waiting and the window has
\* something to paint); DispatchMessageW calls window_proc.
OwnerDispatchPaint(o) ==
    /\ pc[o] = "loop"
    /\ win[o].exists
    /\ win[o].dirty
    /\ ~SentPending(o)
    /\ BeginPaint(o)
    /\ UNCHANGED << renderVars, storeVars, painted,
                    screen, config, hwnd, lock, classRegistered, created,
                    createRet, threadRes, arg, loc, lastWrite >>

\* let state = OVERLAY_STATE.lock().unwrap();   (in the WM_PAINT arm)
WmPaintLock(o) ==
    /\ pc[o] = "paint_lock"
    /\ lock = Unlocked
    /\ lock' = o
    /\ pc' = [pc EXCEPT ![o] = "paint_draw"]
    /\ UNCHANGED << renderVars, storeVars, painted,
                    screen, config, hwnd, classRegistered, win, created,
                    createRet, threadRes, arg, loc, lastWrite >>

\* What the handler renders: the config behind the guard, &state.config, on
\* the client area of the window.
Painted(cfg, side) == [done |-> TRUE, cfg |-> cfg, side |-> side]

\* if state.config.enabled { draw_crosshair(hdc, &state.config) }; EndPaint;
\* the guard is dropped at the end of the arm.
WmPaintDraw(o) ==
    /\ pc[o] = "paint_draw"
    /\ lock = o
    /\ lock' = Unlocked
    /\ painted' = [w \in DOMAIN painted |->
                        IF w = o THEN Painted(config, win[o].side)
                        ELSE painted[w]]
    /\ pc' = [pc EXCEPT ![o] = "loop"]
    /\ UNCHANGED << renderVars, storeVars, screen, config, hwnd,
                    classRegistered, win, created, createRet, threadRes, arg,
                    loc, lastWrite >>

\* The window is destroyed (WM_CLOSE reaches DefWindowProcW, which destroys
\* it): window_proc gets WM_DESTROY and calls PostQuitMessage(0).
WmDestroy(o) ==
    /\ pc[o] = "loop"
    /\ win[o].exists
    /\ win' = [win EXCEPT ![o] = NoWindow]
    /\ pc' = [pc EXCEPT ![o] = "quit"]
    /\ UNCHANGED << renderVars, storeVars, painted,
                    screen, config, hwnd, lock, classRegistered, created,
                    createRet, threadRes, arg, loc, lastWrite >>

\* GetMessageW returns FALSE on WM_QUIT: the loop ends, the closure returns Ok.
OwnerLoopExit(o) ==
    /\ pc[o] = "quit"
    /\ ThreadExit(o, "Ok")
    /\ UNCHANGED << renderVars, storeVars, painted,
                    screen, config, hwnd, lock, classRegistered, created,
                    createRet, arg, loc, lastWrite >>

-----------------------------------------------------------------------------
\* update_config

NeedsResizeAlways(new_size, old_size) == TRUE

\* if new_size != old_size
NeedsResize(new_size, old_size) == new_size # old_size

\* let mut state = OVERLAY_STATE.lock().unwrap(); old_size from the stored
\* config; state.config = config.clone(); then the branch on state.hwnd and on
\* the size.  Without a handle the function returns Ok(()).
UpdateConfig(c, cfg) ==
    /\ pc[c] = "idle"
    /\ lock = Unlocked
    /\ lock' = c
    /\ LET old_size == WindowSize(config)
           new_size == WindowSize(cfg)
       IN  /\ loc' = [loc EXCEPT ![c] =
                  [NoLoc EXCEPT !.old_size = old_size,
                                !.pre = config,
                                !.pre_hwnd = hwnd,
                                !.had = (hwnd # NoHwnd),
                                !.res = IF hwnd = NoHwnd THEN "Ok" ELSE "none"]]
           /\ pc' = [pc EXCEPT ![c] =
                  IF hwnd = NoHwnd THEN "update_ret"
                  ELSE IF NeedsResize(new_size, old_size) THEN "SetWindowPos"
                  ELSE "SetLayeredWindowAttributes"]
    /\ config' = StoreConfig(config, cfg)
    /\ arg' = [arg EXCEPT ![c] = [NoArg EXCEPT !.cfg = cfg]]
    /\ lastWrite' = [kind |-> "update", cfg |-> cfg, res |-> "none",
                      had |-> (hwnd # NoHwnd)]
    /\ UNCHANGED << renderVars, storeVars, painted,
                    screen, hwnd, classRegistered, win, created, createRet,
                    threadRes >>

\* SetWindowPos(...)? returned an error: update_config returns it at once.
SetWindowPosFailed(c) ==
    /\ loc' = [loc EXCEPT ![c].swp = "fail", ![c].res = "Err"]
    /\ pc' = [pc EXCEPT ![c] = "update_ret"]

\* SetWindowPos(hwnd, HWND_TOPMOST, x, y, new_size, new_size, SWP_SHOWWINDOW)?
\* is called by the caller thread, which holds the lock.  It fails on a
\* destroyed window and may fail otherwise; else the call waits for the
\* owning thread to take the position messages.
UpdateSetWindowPos(c) ==
    /\ pc[c] = "SetWindowPos"
    /\ \/ SetWindowPosFailed(c)
       \/ /\ win[hwnd].exists
          /\ pc' = [pc EXCEPT ![c] = "SetWindowPos_wait"]
          /\ UNCHANGED loc
    /\ UNCHANGED << renderVars, storeVars, painted,
                    screen, config, hwnd, lock, classRegistered, win, created,
                    createRet, threadRes, arg, lastWrite >>

\* The window was destroyed while the call waited: the call fails.
UpdateSetWindowPosGone(c) ==
    /\ pc[c] = "SetWindowPos_wait"
    /\ ~win[hwnd].exists
    /\ SetWindowPosFailed(c)
    /\ UNCHANGED << renderVars, storeVars, painted,
                    screen, config, hwnd, lock, classRegistered, win, created,
                    createRet, threadRes, arg, lastWrite >>

\* The owning thread, in GetMessageW, takes the position messages of a
\* caller's SetWindowPos: the window is moved and resized (and, its class
\* having CS_HREDRAW | CS_VREDRAW, invalidated), and the caller's call returns.
OwnerServiceSent(o, c) ==
    /\ pc[o] = "loop"
    /\ pc[c] = "SetWindowPos_wait"
    /\ hwnd = o
    /\ win[o].exists
    /\ LET new_size == WindowSize(arg[c].cfg)
       IN  win' = [win EXCEPT ![o].x = CenteredX(screen, new_size),
                              ![o].y = CenteredY(screen, new_size),
                              ![o].side = new_size,
                              ![o].dirty = TRUE]
    /\ pc' = [pc EXCEPT ![c] = "SetLayeredWindowAttributes"]
    /\ loc' = [loc EXCEPT ![c].swp = "ok"]
    /\ UNCHANGED << renderVars, storeVars, painted,
                    screen, config, hwnd, lock, classRegistered, created,
                    createRet, threadRes, arg, lastWrite >>

\* let _ = SetLayeredWindowAttributes(hwnd, 0, (config.opacity * 255.0) as u8,
\* LWA_COLORKEY | LWA_ALPHA), called by the caller thread under the lock.
UpdateSetLayered(c) ==
    /\ pc[c] = "SetLayeredWindowAttributes"
    /\ win' = IF win[hwnd].exists
                THEN [win EXCEPT ![hwnd].alpha = Alpha(arg[c].cfg.opacity)]
                ELSE win
    /\ loc' = [loc EXCEPT ![c].alpha = TRUE]
    /\ pc' = [pc EXCEPT ![c] = "InvalidateRect"]
    /\ UNCHANGED << renderVars, storeVars, painted,
                    screen, config, hwnd, lock, classRegistered, created,
                    createRet, threadRes, arg, lastWrite >>

\* InvalidateRect(hwnd, None, true): the window has something to paint.
Invalidated(w, h) ==
    IF w[h].exists THEN [w EXCEPT ![h].dirty = TRUE] ELSE w

\* let _ = InvalidateRect(hwnd, None, true); then Ok(()).
UpdateInvalidate(c) ==
    /\ pc[c] = "InvalidateRect"
    /\ win' = Invalidated(win, hwnd)
    /\ loc' = [loc EXCEPT ![c].inval = TRUE, ![c].res = "Ok"]
    /\ pc' = [pc EXCEPT ![c] = "update_ret"]
    /\ UNCHANGED << renderVars, storeVars, painted,
                    screen, config, hwnd, lock, classRegistered, created,
                    createRet, threadRes, arg, lastWrite >>

\* update_config returns: the guard is dropped.
UpdateReturn(c) ==
    /\ pc[c] = "update_ret"
    /\ lock = c
    /\ lock' = Unlocked
    /\ lastWrite' = [lastWrite EXCEPT !.res = loc[c].res]
    /\ loc' = [loc EXCEPT ![c] = NoLoc]
    /\ arg' = [arg EXCEPT ![c] = NoArg]
    /\ pc' = [pc EXCEPT ![c] = "idle"]
    /\ UNCHANGED << renderVars, storeVars, painted,
                    screen, config, hwnd, classRegistered, win, created,
                    createRet, threadRes >>

-----------------------------------------------------------------------------
\* toggle_overlay

\* let mut state = OVERLAY_STATE.lock().unwrap();
\* state.config.enabled = enabled; then the branch on state.hwnd.
ToggleOverlay(c, e) ==
    /\ pc[c] = "idle"
    /\ lock = Unlocked
    /\ lock' = c
    /\ LET new == SetEnabled(config, e)
       IN  /\ config' = new
           /\ lastWrite' = [kind |-> "toggle", cfg |-> new, res |-> "Ok",
                             had |-> (hwnd # NoHwnd)]
    /\ arg' = [arg EXCEPT ![c] = [NoArg EXCEPT !.enabled = e]]
    /\ loc' = [loc EXCEPT ![c] = [NoLoc EXCEPT !.pre = config,
                                               !.pre_hwnd = hwnd,
                                               !.had = (hwnd # NoHwnd)]]
    /\ pc' = [pc EXCEPT ![c] = IF hwnd = NoHwnd THEN "toggle_ret"
                               ELSE "toggle_InvalidateRect"]
    /\ UNCHANGED << renderVars, storeVars, painted,
                    screen, hwnd, classRegistered, win, created, createRet,
                    threadRes >>

\* let _ = InvalidateRect(hwnd, None, true);
ToggleInvalidate(c) ==
    /\ pc[c] = "toggle_InvalidateRect"
    /\ win' = Invalidated(win, hwnd)
    /\ loc' = [loc EXCEPT ![c].inval = TRUE]
    /\ pc' = [pc EXCEPT ![c] = "toggle_ret"]
    /\ UNCHANGED << renderVars, storeVars, painted,
                    screen, config, hwnd, lock, classRegistered, created,
                    createRet, threadRes, arg, lastWrite >>

\* toggle_overlay returns Ok(()): the guard is dropped.
ToggleReturn(c) ==
    /\ pc[c] = "toggle_ret"
    /\ lock = c
    /\ lock' = Unlocked
    /\ loc' = [loc EXCEPT ![c] = NoLoc]
    /\ arg' = [arg EXCEPT ![c] = NoArg]
    /\ pc' = [pc EXCEPT ![c] = "idle"]
    /\ UNCHANGED << renderVars, storeVars, painted,
                    screen, config, hwnd, classRegistered, win, created,
                    createRet, threadRes, lastWrite >>

-----------------------------------------------------------------------------
\* get_config

\* state.config.clone()
Cloned(cfg) == cfg

\* let state = OVERLAY_STATE.lock().unwrap(); state.config.clone()
GetConfig(c) ==
    /\ pc[c] = "idle"
    /\ lock = Unlocked
    /\ loc' = [loc EXCEPT ![c] = [NoLoc EXCEPT !.got = Cloned(config)]]
    /\ pc' = [pc EXCEPT ![c] = "get_ret"]
    /\ UNCHANGED << renderVars, storeVars, painted,
                    screen, config, hwnd, lock, classRegistered, win, created,
                    createRet, threadRes, arg, lastWrite >>

\* The caller has the snapshot and goes on.
GetConfigReturn(c) ==
    /\ pc[c] = "get_ret"
    /\ loc' = [loc EXCEPT ![c] = NoLoc]
    /\ pc' = [pc EXCEPT ![c] = "idle"]
    /\ UNCHANGED << renderVars, storeVars, painted,
                    screen, config, hwnd, lock, classRegistered, win, created,
                    createRet, threadRes, arg, lastWrite >>

-----------------------------------------------------------------------------
\* The caller threads that run commands and the tray menu: every caller
\* thread but the hotkey thread, which runs its handler only.
Commanders == Callers \ { hotkey.thread }

Next ==
    \/ \E c \in Callers, o \in Owners :
          CreateOverlayWindow(c, o) /\ UNCHANGED hotkey
    \/ \E o \in Owners :
          OwnerRegisterClass(o) /\ UNCHANGED hotkey
    \/ \E o \in Owners :
          OwnerCreateWindow(o) /\ UNCHANGED hotkey
    \/ \E o \in Owners :
          OwnerSetLayered(o) /\ UNCHANGED hotkey
    \/ \E o \in Owners :
          OwnerPublish(o) /\ UNCHANGED hotkey
    \/ \E o \in Owners :
          OwnerShowUpdate(o) /\ UNCHANGED hotkey
    \/ \E o \in Owners :
          OwnerDispatchPaint(o) /\ UNCHANGED hotkey
    \/ \E o \in Owners, c \in Callers :
          OwnerServiceSent(o, c) /\ UNCHANGED hotkey
    \/ \E o \in Owners :
          WmPaintLock(o) /\ UNCHANGED hotkey
    \/ \E o \in Owners :
          WmPaintDraw(o) /\ UNCHANGED hotkey
    \/ \E o \in Owners :
          WmDestroy(o) /\ UNCHANGED hotkey
    \/ \E o \in Owners :
          OwnerLoopExit(o) /\ UNCHANGED hotkey
    \/ \E c \in Commanders, cfg \in InputConfigs :
          UpdateConfig(c, cfg) /\ UNCHANGED hotkey
    \/ \E c \in Commanders :
          UpdateSetWindowPos(c) /\ UNCHANGED hotkey
    \/ \E c \in Commanders :
          UpdateSetWindowPosGone(c) /\ UNCHANGED hotkey
    \/ \E c \in Commanders :
          UpdateSetLayered(c) /\ UNCHANGED hotkey
    \/ \E c \in Commanders :
          UpdateInvalidate(c) /\ UNCHANGED hotkey
    \/ \E c \in Commanders :
          UpdateReturn(c) /\ UNCHANGED hotkey
    \/ \E c \in Commanders, e \in BOOLEAN :
          ToggleOverlay(c, e) /\ UNCHANGED hotkey
    \/ \E c \in Commanders :
          ToggleInvalidate(c) /\ UNCHANGED hotkey
    \/ \E c \in Commanders :
          ToggleReturn(c) /\ UNCHANGED hotkey
    \/ \E c \in Commanders :
          GetConfig(c) /\ UNCHANGED hotkey
    \/ \E c \in Commanders :
          GetConfigReturn(c) /\ UNCHANGED hotkey

Spec == Init /\ [][Next]_vars

SpecRecreate == InitRecreate /\ [][Next]_vars

SpecPaint == InitPaint /\ [][Next]_vars

-----------------------------------------------------------------------------
\* The hotkey thread (hotkeys.rs): its loop polls the receiver every 100 ms
\* and runs the handler below for every pressed F9.  It is one more caller
\* thread of get_config and toggle_overlay.

\* The F9 presses looked at.
MaxPresses == 2

\* std::thread::spawn(move || { ... }): the last caller thread is the hotkey
\* thread.
HotkeyThread(m) == 100 + m

\* let new_enabled = !current_config.enabled;
NewEnabled(current_config) == ~current_config.enabled

\* One window owner, the command and tray callers, and the hotkey thread.
InitHotkey ==
    /\ InitWith(MaxCreates, NumCallers + 1, {})
    /\ hotkey = [NoHotkey EXCEPT !.thread = HotkeyThread(NumCallers + 1)]
    /\ RenderIdle
    /\ StoreIdle

\* try_recv() returns a pressed F9: let current_config = get_config();
HotkeyGetConfig ==
    /\ hotkey.thread \in Callers
    /\ hotkey.stage = "try_recv"
    /\ hotkey.presses < MaxPresses
    /\ GetConfig(hotkey.thread)
    /\ hotkey' = [hotkey EXCEPT !.stage = "get_config"]

\* get_config returns; let new_enabled = !current_config.enabled;
HotkeyNewEnabled ==
    /\ hotkey.thread \in Callers
    /\ hotkey.stage = "get_config"
    /\ GetConfigReturn(hotkey.thread)
    /\ hotkey' = [hotkey EXCEPT
                    !.stage = "new_enabled",
                    !.new_enabled = NewEnabled(loc[hotkey.thread].got)]

\* toggle_overlay(new_enabled): the write of the handler, with the stored
\* enabled flag immediately before and immediately after it.
HotkeyToggleOverlay ==
    /\ hotkey.thread \in Callers
    /\ hotkey.stage = "new_enabled"
    /\ ToggleOverlay(hotkey.thread, hotkey.new_enabled)
    /\ hotkey' = [hotkey EXCEPT !.stage = "toggle_overlay",
                                !.before = config.enabled,
                                !.after = config'.enabled]

\* toggle_overlay invalidates the window.
HotkeyToggleInvalidate ==
    /\ hotkey.thread \in Callers
    /\ hotkey.stage = "toggle_overlay"
    /\ ToggleInvalidate(hotkey.thread)
    /\ UNCHANGED hotkey

\* toggle_overlay returns (its result is only logged).
HotkeyToggleReturn ==
    /\ hotkey.thread \in Callers
    /\ hotkey.stage = "toggle_overlay"
    /\ ToggleReturn(hotkey.thread)
    /\ hotkey' = [hotkey EXCEPT !.stage = "emit"]

\* app_handle.emit("crosshair-toggled", new_enabled), then the sleep and the
\* next poll.
HotkeyEmit ==
    /\ hotkey.thread \in Callers
    /\ hotkey.stage = "emit"
    /\ hotkey' = [hotkey EXCEPT !.stage = "try_recv",
                                !.emitted = TRUE,
                                !.published = hotkey.new_enabled,
                                !.presses = hotkey.presses + 1]
    /\ UNCHANGED << renderVars, storeVars, painted,
                    screen, config, hwnd, lock, classRegistered, pc, win,
                    created, createRet, threadRes, arg, loc, lastWrite >>

NextHotkey ==
    \/ Next
    \/ HotkeyGetConfig
    \/ HotkeyNewEnabled
    \/ HotkeyToggleOverlay
    \/ HotkeyToggleInvalidate
    \/ HotkeyToggleReturn
    \/ HotkeyEmit

SpecHotkey == InitHotkey /\ [][NextHotkey]_vars

-----------------------------------------------------------------------------
\* The WM_PAINT arm and the render engine, as the GDI calls they make in order.

\* The longest `lines` of a Custom config, and the largest gap and size of the
\* geometry inputs.
MaxLines == 2
MaxGeom == 3

\* A GDI object: a pen (id, width, COLORREF) or a brush (id, COLORREF).
GdiPen(id, width, color) ==
    [kind |-> "pen", id |-> id, width |-> width, color |-> color]
GdiBrush(id, color) ==
    [kind |-> "brush", id |-> id, width |-> 0, color |-> color]
NoObj == [kind |-> "none", id |-> "none", width |-> 0, color |-> 0]
\* What the device context of BeginPaint has selected, and the stock objects.
StockPen == GdiPen("dc_pen", 1, 0)
StockBrush == GdiBrush("dc_brush", 16777215)
NullBrush == GdiBrush("NULL_BRUSH", 0)
BlackBrush == GdiBrush("BLACK_BRUSH", 0)

\* One GDI call: its name, the object it is about, its integer arguments, and
\* (pass) the pass of draw_crosshair that made it.
GdiCall(op, obj, a, b, c, d) ==
    [op |-> op, obj |-> obj, a |-> a, b |-> b, c |-> c, d |-> d,
     pass |-> "none"]
MoveToEx(x, y) == GdiCall("MoveToEx", NoObj, x, y, 0, 0)
LineTo(x, y) == GdiCall("LineTo", NoObj, x, y, 0, 0)
Ellipse(l, t, r, b) == GdiCall("Ellipse", NoObj, l, t, r, b)
FillRect(r, b, brush) == GdiCall("FillRect", brush, 0, 0, r, b)
CreatePen(pen) == GdiCall("CreatePen", pen, 0, 0, 0, 0)
CreateSolidBrush(brush) == GdiCall("CreateSolidBrush", brush, 0, 0, 0, 0)
SelectObject(obj) == GdiCall("SelectObject", obj, 0, 0, 0, 0)
DeleteObject(obj) == GdiCall("DeleteObject", obj, 0, 0, 0, 0)

\* r = (color >> 16) & 0xFF, g = (color >> 8) & 0xFF, b = color & 0xFF;
\* (b << 16) | (g << 8) | r
ColorRef(color) ==
    LET r == (color \div 65536) % 256
        g == (color \div 256) % 256
        b == color % 256
    IN  b * 65536 + g * 256 + r

\* config.rotation in degrees; cos_a and sin_a of rotation * PI / 180.0 in
\* millionths, for the rotations of the inputs.
Rotations == { 0, 45, 90, 180 }
Micro == 1000000
CosMicro(rotation) ==
    CASE rotation = 0 -> 1000000
      [] rotation = 45 -> 707107
      [] rotation = 90 -> 0
      [] rotation = 180 -> -1000000
SinMicro(rotation) ==
    CASE rotation = 0 -> 0
      [] rotation = 45 -> 707107
      [] rotation = 90 -> 1000000
      [] rotation = 180 -> 0

RotatePointSwapped(cx, cy, x, y, rotation) ==
    LET dx == x - cx
        dy == y - cy
    IN  << cx + TruncDiv(dx * SinMicro(rotation) - dy * CosMicro(rotation),
                         Micro),
           cy + TruncDiv(dx * CosMicro(rotation) + dy * SinMicro(rotation),
                         Micro) >>

\* rotate_point: new_x = center_x + (dx as f32 * cos_a - dy as f32 * sin_a)
\* as i32, new_y = center_y + (dx as f32 * sin_a + dy as f32 * cos_a) as i32;
\* the cast truncates toward zero.
RotatePoint(cx, cy, x, y, rotation) ==
    LET dx == x - cx
        dy == y - cy
    IN  << cx + TruncDiv(dx * CosMicro(rotation) - dy * SinMicro(rotation),
                         Micro),
           cy + TruncDiv(dx * SinMicro(rotation) + dy * CosMicro(rotation),
                         Micro) >>

\* MoveToEx(hdc, x1, y1, None); LineTo(hdc, x2, y2)
Segment(p, q) == << MoveToEx(p[1], p[2]), LineTo(q[1], q[2]) >>

\* draw_classic_crosshair: top, bottom, left, right, every end rotated.
DrawClassicCrosshair(cx, cy, cfg) ==
    LET R(x, y) == RotatePoint(cx, cy, x, y, cfg.rotation)
    IN  Segment(R(cx, cy - cfg.gap - cfg.size), R(cx, cy - cfg.gap))
        \o Segment(R(cx, cy + cfg.gap), R(cx, cy + cfg.gap + cfg.size))
        \o Segment(R(cx - cfg.gap - cfg.size, cy), R(cx - cfg.gap, cy))
        \o Segment(R(cx + cfg.gap, cy), R(cx + cfg.gap + cfg.size, cy))

\* draw_circle_crosshair; brush is what SelectObject(hdc, null_brush)
\* returned, selected again at the end.
DrawCircleCrosshair(cx, cy, cfg, brush) ==
    LET radius == cfg.size + cfg.gap
    IN  << SelectObject(NullBrush),
           Ellipse(cx - radius, cy - radius, cx + radius, cy + radius) >>
        \o (IF cfg.gap > 0 THEN DrawClassicCrosshair(cx, cy, cfg) ELSE << >>)
        \o << SelectObject(brush) >>

DrawSquareCrosshairOpen(cx, cy, cfg) ==
    LET half_size == cfg.size + cfg.gap
    IN  << MoveToEx(cx - half_size, cy - half_size),
           LineTo(cx + half_size, cy - half_size),
           LineTo(cx + half_size, cy + half_size),
           LineTo(cx - half_size, cy + half_size) >>
        \o (IF cfg.gap > 0 THEN DrawClassicCrosshair(cx, cy, cfg) ELSE << >>)

\* draw_square_crosshair
DrawSquareCrosshair(cx, cy, cfg) ==
    LET half_size == cfg.size + cfg.gap
    IN  << MoveToEx(cx - half_size, cy - half_size),
           LineTo(cx + half_size, cy - half_size),
           LineTo(cx + half_size, cy + half_size),
           LineTo(cx - half_size, cy + half_size),
           LineTo(cx - half_size, cy - half_size) >>
        \o (IF cfg.gap > 0 THEN DrawClassicCrosshair(cx, cy, cfg) ELSE << >>)

\* draw_t_crosshair: nothing is rotated.
DrawTCrosshair(cx, cy, cfg) ==
    Segment(<< cx - cfg.t_length, cy - cfg.gap - cfg.size >>,
            << cx + cfg.t_length, cy - cfg.gap - cfg.size >>)
    \o Segment(<< cx, cy - cfg.gap - cfg.size >>, << cx, cy - cfg.gap >>)
    \o (IF cfg.gap > 0
          THEN Segment(<< cx, cy + cfg.gap >>,
                       << cx, cy + cfg.gap + cfg.size >>)
               \o Segment(<< cx - cfg.gap - cfg.size, cy >>,
                          << cx - cfg.gap, cy >>)
               \o Segment(<< cx + cfg.gap, cy >>,
                          << cx + cfg.gap + cfg.size, cy >>)
          ELSE << >>)

LineSegmentAtOrigin(cx, cy, line) ==
    Segment(<< line.start_x, line.start_y >>, << line.end_x, line.end_y >>)

\* MoveToEx(center + start); LineTo(center + end)
LineSegment(cx, cy, line) ==
    Segment(<< cx + line.start_x, cy + line.start_y >>,
            << cx + line.end_x, cy + line.end_y >>)

\* The pen of one entry of lines: CreatePen(PS_SOLID, line.thickness, color).
LinePen(line) == GdiPen("line_pen", line.thickness, ColorRef(line.color))

\* One turn of the loop of draw_custom_crosshair; pen is the pen selected
\* when it starts, which SelectObject returns and the turn selects again.
DrawCustomLine(cx, cy, line, is_shadow, pen) ==
    IF ~is_shadow
      THEN << CreatePen(LinePen(line)), SelectObject(LinePen(line)) >>
           \o LineSegment(cx, cy, line)
           \o << SelectObject(pen), DeleteObject(LinePen(line)) >>
      ELSE LineSegment(cx, cy, line)

\* draw_custom_crosshair: for line in &config.lines
RECURSIVE DrawCustomCrosshair(_, _, _, _, _)
DrawCustomCrosshair(cx, cy, lines, is_shadow, pen) ==
    IF lines = << >>
      THEN << >>
      ELSE DrawCustomLine(cx, cy, Head(lines), is_shadow, pen)
           \o DrawCustomCrosshair(cx, cy, Tail(lines), is_shadow, pen)

DotShapeSegment(cx, cy, cfg) == Segment(<< cx, cy >>, << cx + 1, cy >>)

\* CrosshairStyle::Dot => { }: handled by the show_dot setting.
DotShape(cx, cy, cfg) == << >>

\* draw_crosshair_shape; pen and brush are what the device context has
\* selected when it is called.
DrawCrosshairShape(cx, cy, cfg, is_shadow, pen, brush) ==
    CASE cfg.style = "Classic" -> DrawClassicCrosshair(cx, cy, cfg)
      [] cfg.style = "Dot" -> DotShape(cx, cy, cfg)
      [] cfg.style = "Circle" -> DrawCircleCrosshair(cx, cy, cfg, brush)
      [] cfg.style = "Square" -> DrawSquareCrosshair(cx, cy, cfg)
      [] cfg.style = "TShape" -> DrawTCrosshair(cx, cy, cfg)
      [] cfg.style = "Custom" ->
            DrawCustomCrosshair(cx, cy, cfg.lines, is_shadow, pen)

\* The calls of one pass of draw_crosshair, marked with the pass.
InPass(ops, pass) ==
    [i \in 1 .. Len(ops) |-> [ops[i] EXCEPT !.pass = pass]]

DrawCenterOfClient(cfg, side) == << TruncDiv(side, 2), TruncDiv(side, 2) >>

\* center_x = (rect.right - rect.left) / 2 + config.position_x, center_y
\* alike; rect is the client rectangle, (0, 0, side, side).
DrawCenter(cfg, side) ==
    << TruncDiv(side - 0, 2) + cfg.position_x,
       TruncDiv(side - 0, 2) + cfg.position_y >>

OutlineWidthThin(cfg) == cfg.thickness + cfg.outline_thickness

\* config.thickness + config.outline_thickness * 2
OutlineWidth(cfg) == cfg.thickness + cfg.outline_thickness * 2

\* The pens and the brush draw_crosshair creates.
ShadowPen(cfg) ==
    GdiPen("shadow_pen", cfg.thickness, ColorRef(cfg.shadow_color))
MainPen(cfg) == GdiPen("pen", cfg.thickness, ColorRef(cfg.color))
OutlinePen(cfg) ==
    GdiPen("outline_pen", OutlineWidth(cfg), ColorRef(cfg.outline_color))
DotBrush(cfg) == GdiBrush("dot_brush", ColorRef(cfg.color))

\* draw_crosshair: shadow pass, the main pen, outline pass, main pass, dot.
DrawCrosshair(cfg, side) ==
    LET center_x == DrawCenter(cfg, side)[1]
        center_y == DrawCenter(cfg, side)[2]
        shadow_x == center_x + cfg.shadow_offset
        shadow_y == center_y + cfg.shadow_offset
    IN  (IF cfg.shadow_enabled
           THEN << CreatePen(ShadowPen(cfg)), SelectObject(ShadowPen(cfg)) >>
                \o InPass(DrawCrosshairShape(shadow_x, shadow_y, cfg, TRUE,
                                             ShadowPen(cfg), StockBrush),
                          "shadow")
                \o << SelectObject(StockPen), DeleteObject(ShadowPen(cfg)) >>
           ELSE << >>)
        \o << CreatePen(MainPen(cfg)), SelectObject(MainPen(cfg)) >>
        \o (IF cfg.show_outline
              THEN << CreatePen(OutlinePen(cfg)),
                      SelectObject(OutlinePen(cfg)) >>
                   \o InPass(DrawCrosshairShape(center_x, center_y, cfg,
                                                FALSE, OutlinePen(cfg),
                                                StockBrush),
                             "outline")
                   \o << DeleteObject(OutlinePen(cfg)),
                         SelectObject(MainPen(cfg)) >>
              ELSE << >>)
        \o InPass(DrawCrosshairShape(center_x, center_y, cfg, FALSE,
                                     MainPen(cfg), StockBrush),
                  "main")
        \o (IF cfg.show_dot
              THEN << CreateSolidBrush(DotBrush(cfg)),
                      SelectObject(DotBrush(cfg)) >>
                   \o InPass(<< Ellipse(center_x - cfg.dot_size,
                                        center_y - cfg.dot_size,
                                        center_x + cfg.dot_size,
                                        center_y + cfg.dot_size) >>,
                             "dot")
                   \o << SelectObject(StockBrush),
                         DeleteObject(DotBrush(cfg)) >>
              ELSE << >>)
        \o << SelectObject(StockPen), DeleteObject(MainPen(cfg)) >>

\* The WM_PAINT arm of window_proc: FillRect(hdc, &rect, black brush), then
\* if state.config.enabled { draw_crosshair(hdc, &state.config) }.
WmPaint(cfg, side) ==
    << FillRect(side, side, BlackBrush) >>
    \o (IF cfg.enabled THEN DrawCrosshair(cfg, side) ELSE << >>)

\* The inputs of one paint.  Colors whose channels differ, so that the order
\* of the channels shows.
RenderBase ==
    [DefaultConfig EXCEPT !.color = 1122867, !.outline_color = 4478310,
                          !.shadow_color = 7833753, !.shadow_offset = 2]
Styles == { "Classic", "Dot", "Circle", "Square", "TShape", "Custom" }
LinePool ==
    { [start_x |-> -5, start_y |-> 0, end_x |-> 5, end_y |-> 1,
       thickness |-> 1, color |-> 255],
      [start_x |-> 0, start_y |-> -4, end_x |-> 2, end_y |-> 4,
       thickness |-> 3, color |-> 16711935] }
LineSeqs(n) == UNION { [1 .. k -> LinePool] : k \in 0 .. n }
Positions == { << 0, 0 >>, << -3, 7 >>, << 4, -1 >> }
ClientSides == { 54, 75 }

\* Every style under every choice of the passes, and the geometry of the
\* shapes over a range of gaps, sizes, rotations and centers.
RenderConfigs ==
    { [RenderBase EXCEPT !.style = s, !.enabled = en, !.shadow_enabled = sh,
                         !.show_outline = ol, !.show_dot = dt, !.lines = ls] :
        s \in Styles, en \in BOOLEAN, sh \in BOOLEAN, ol \in BOOLEAN,
        dt \in BOOLEAN, ls \in LineSeqs(MaxLines) }
    \cup
    { [RenderBase EXCEPT !.style = s, !.gap = g, !.size = z, !.rotation = r,
                         !.position_x = p[1], !.position_y = p[2]] :
        s \in Styles \ { "Dot", "Custom" }, g \in (0 - 1) .. MaxGeom,
        z \in 0 .. MaxGeom, r \in Rotations, p \in Positions }

InitRender ==
    /\ InitWith(0, 0, {})
    /\ HotkeyIdle
    /\ canvas \in [cfg : RenderConfigs, side : ClientSides]
    /\ frame = NoFrame
    /\ StoreIdle

\* The window gets WM_PAINT: the arm runs on the stored config.
Paint ==
    /\ ~frame.done
    /\ frame' = [done |-> TRUE,
                 center |-> IF canvas.cfg.enabled
                              THEN DrawCenter(canvas.cfg, canvas.side)
                              ELSE NoFrame.center,
                 ops |-> WmPaint(canvas.cfg, canvas.side)]
    /\ UNCHANGED << overlayVars, storeVars, canvas >>

NextRender == Paint

SpecRender == InitRender /\ [][NextRender]_vars

-----------------------------------------------------------------------------
\* The storage commands of lib.rs: config.json and presets.json in the
\* config directory.  A command runs from its first statement to its return
\* in one step; a call of the file system that fails leaves the file as it
\* was.

\* How many preset ids the inputs use (an id is a String; the ids are
\* 1 .. MaxPresetIds here).
MaxPresetIds == 2
PresetIds == 1 .. MaxPresetIds
PresetNames == { "a", "b" }

\* CrosshairPreset { id, name, config, created_at }
PresetInputs ==
    [id : PresetIds, name : PresetNames, config : { DefaultConfig },
     created_at : { "t" }]
NoPreset == [id |-> 0, name |-> "none", config |-> DefaultConfig,
             created_at |-> "none"]
\* The configs save_config is called with.
SavedConfigs == { DefaultConfig, [DefaultConfig EXCEPT !.size = 20] }

\* The text of a file: the pretty JSON of a CrosshairConfig, that of a
\* FavoritesData { presets }, or text that is not JSON of either.
ConfigText(cfg) ==
    [shape |-> "CrosshairConfig", config |-> cfg, presets |-> << >>]
FavoritesText(presets) ==
    [shape |-> "FavoritesData", config |-> DefaultConfig,
     presets |-> presets]
MalformedText ==
    [shape |-> "malformed", config |-> DefaultConfig, presets |-> << >>]
NoText == [shape |-> "none", config |-> DefaultConfig, presets |-> << >>]

\* A file of the directory: path.exists() and its text.
AbsentFile == [exists |-> FALSE, text |-> NoText]
File(text) == [exists |-> TRUE, text |-> text]

\* Result<T, String>: Ok(value) with the value in config or presets, or
\* Err(e), e naming the call that failed.
Ok(cfg, presets) ==
    [ok |-> TRUE, err |-> "none", config |-> cfg, presets |-> presets]
Err(e) ==
    [ok |-> FALSE, err |-> e, config |-> DefaultConfig, presets |-> << >>]
OkUnit == Ok(DefaultConfig, << >>)

\* serde_json::to_string_pretty(&config), (&favorites_data)
ToStringPrettyConfig(cfg) == ConfigText(cfg)
ToStringPrettyFavorites(presets) == FavoritesText(presets)

\* serde_json::from_str::<CrosshairConfig>(&config_str)
FromStrConfig(text) ==
    IF text.shape = "CrosshairConfig"
      THEN Ok(text.config, << >>)
      ELSE Err("from_str")

\* serde_json::from_str::<FavoritesData>(&presets_str)
FromStrFavorites(text) ==
    IF text.shape = "FavoritesData"
      THEN Ok(DefaultConfig, text.presets)
      ELSE Err("from_str")

\* .unwrap_or(FavoritesData { presets: Vec::new() })
UnwrapOrEmpty(res) == IF res.ok THEN res.presets ELSE << >>

RetainNone(presets, id) == << >>

RetainAll(presets, id) == presets

\* favorites_data.presets.retain(|p| p.id != id)
Retain(presets, id) ==
    LET Other(p) == p.id # id
    IN  SelectSeq(presets, Other)

PushFront(presets, preset) == << preset >> \o presets

\* favorites_data.presets.push(preset)
Push(presets, preset) == Append(presets, preset)

\* Which call of the file system fails in a command, if any.
IoOutcomes == { "ok", "create_dir_all", "read_to_string", "write" }

\* What a command leaves: the directory and the Result it returns.
Outcome(d, ret) == [disk |-> d, ret |-> ret]

\* save_config
SaveConfigOutcome(d, cfg, io) ==
    IF ~d.dir THEN Outcome(d, Err("config_dir"))
    ELSE IF io = "create_dir_all" THEN Outcome(d, Err(io))
    ELSE IF io = "write" THEN Outcome(d, Err(io))
    ELSE Outcome([d EXCEPT !.config = File(ToStringPrettyConfig(cfg))],
                 OkUnit)

\* save_preset
SavePresetOutcome(d, preset, io) ==
    IF ~d.dir THEN Outcome(d, Err("config_dir"))
    ELSE IF io = "create_dir_all" THEN Outcome(d, Err(io))
    ELSE IF d.presets.exists /\ io = "read_to_string"
      THEN Outcome(d, Err(io))
    ELSE LET loaded == IF d.presets.exists
                         THEN UnwrapOrEmpty(FromStrFavorites(d.presets.text))
                         ELSE << >>
             presets == Push(Retain(loaded, preset.id), preset)
         IN  IF io = "write"
               THEN Outcome(d, Err(io))
               ELSE Outcome([d EXCEPT !.presets =
                                File(ToStringPrettyFavorites(presets))],
                            OkUnit)

\* if !presets_path.exists() { return Ok(Vec::new()); }
LoadPresetsAbsent == Ok(DefaultConfig, << >>)

\* load_presets
LoadPresetsOutcome(d, io) ==
    IF ~d.dir THEN Outcome(d, Err("config_dir"))
    ELSE IF ~d.presets.exists THEN Outcome(d, LoadPresetsAbsent)
    ELSE IF io = "read_to_string" THEN Outcome(d, Err(io))
    ELSE Outcome(d, Ok(DefaultConfig,
                       UnwrapOrEmpty(FromStrFavorites(d.presets.text))))

\* delete_preset
DeletePresetOutcome(d, id, io) ==
    IF ~d.dir THEN Outcome(d, Err("config_dir"))
    ELSE IF ~d.presets.exists THEN Outcome(d, OkUnit)
    ELSE IF io = "read_to_string" THEN Outcome(d, Err(io))
    ELSE LET loaded == UnwrapOrEmpty(FromStrFavorites(d.presets.text))
             presets == Retain(loaded, id)
         IN  IF io = "write"
               THEN Outcome(d, Err(io))
               ELSE Outcome([d EXCEPT !.presets =
                                File(ToStringPrettyFavorites(presets))],
                            OkUnit)

LoadConfigAbsentErr == Err("exists")

\* if !config_path.exists() { return Ok(CrosshairConfig::default()); }
LoadConfigAbsent == Ok(DefaultConfig, << >>)

\* load_config: serde_json::from_str(&config_str).map_err(|e| e.to_string())?
LoadConfigOutcome(d, io) ==
    IF ~d.dir THEN Outcome(d, Err("config_dir"))
    ELSE IF ~d.config.exists THEN Outcome(d, LoadConfigAbsent)
    ELSE IF io = "read_to_string" THEN Outcome(d, Err(io))
    ELSE Outcome(d, FromStrConfig(d.config.text))

\* The directory before the first command: dirs::config_dir() is Some or
\* None; each file is absent, malformed, or what the program wrote earlier.
InitDisks ==
    { [dir |-> FALSE, config |-> AbsentFile, presets |-> AbsentFile] }
    \cup
    [dir : { TRUE },
     config : { AbsentFile, File(MalformedText),
                File(ConfigText([DefaultConfig EXCEPT !.size = 20])) },
     presets : { AbsentFile, File(MalformedText),
                 File(FavoritesText(<< >>)) }]

InitStore ==
    /\ InitWith(0, 0, {})
    /\ HotkeyIdle
    /\ RenderIdle
    /\ disk \in InitDisks
    /\ call = NoCall
    /\ latest = [id \in PresetIds |-> NoPreset]

\* A command ran: call records it, with the directory before it.
Called(op, preset, id, io, out) ==
    [op |-> op, preset |-> preset, id |-> id, io |-> io, ret |-> out.ret,
     before |-> disk]

SaveConfig(cfg, io) ==
    LET out == SaveConfigOutcome(disk, cfg, io)
    IN  /\ disk' = out.disk
        /\ call' = Called("save_config", NoPreset, 0, io, out)
        /\ UNCHANGED << overlayVars, renderVars, latest >>

SavePreset(preset, io) ==
    LET out == SavePresetOutcome(disk, preset, io)
    IN  /\ disk' = out.disk
        /\ call' = Called("save_preset", preset, preset.id, io, out)
        /\ latest' = IF out.ret.ok
                       THEN [latest EXCEPT ![preset.id] = preset]
                       ELSE latest
        /\ UNCHANGED << overlayVars, renderVars >>

LoadPresets(io) ==
    LET out == LoadPresetsOutcome(disk, io)
    IN  /\ disk' = out.disk
        /\ call' = Called("load_presets", NoPreset, 0, io, out)
        /\ UNCHANGED << overlayVars, renderVars, latest >>

DeletePreset(id, io) ==
    LET out == DeletePresetOutcome(disk, id, io)
    IN  /\ disk' = out.disk
        /\ call' = Called("delete_preset", NoPreset, id, io, out)
        /\ latest' = IF out.ret.ok
                       THEN [latest EXCEPT ![id] = NoPreset]
                       ELSE latest
        /\ UNCHANGED << overlayVars, renderVars >>

LoadConfig(io) ==
    LET out == LoadConfigOutcome(disk, io)
    IN  /\ disk' = out.disk
        /\ call' = Called("load_config", NoPreset, 0, io, out)
        /\ UNCHANGED << overlayVars, renderVars, latest >>

NextStore ==
    \/ \E cfg \in SavedConfigs, io \in IoOutcomes : SaveConfig(cfg, io)
    \/ \E preset \in PresetInputs, io \in IoOutcomes : SavePreset(preset, io)
    \/ \E io \in IoOutcomes : LoadPresets(io)
    \/ \E id \in PresetIds, io \in IoOutcomes : DeletePreset(id, io)
    \/ \E io \in IoOutcomes : LoadConfig(io)

SpecStore == InitStore /\ [][NextStore]_vars

-----------------------------------------------------------------------------
\* Properties

\* The statements at which a thread is inside a native window or drawing call.
NativeCallSites ==
    { "SetWindowPos", "SetWindowPos_wait", "SetLayeredWindowAttributes",
      "InvalidateRect", "toggle_InvalidateRect", "paint_draw" }

\* The statements at which a caller thread resizes the window or sets its
\* opacity.
ResizeOpacitySites ==
    { "SetWindowPos", "SetWindowPos_wait", "SetLayeredWindowAttributes" }

\* The owning thread is past its creation steps: at ShowWindow, in the paint
\* handler, in the message loop, or gone.
PastCreation == { "show", "paint_lock", "paint_draw", "loop", "quit", "exited" }

\* The owning thread has entered its message loop (or is in a paint handler).
InLoop == { "paint_lock", "paint_draw", "loop", "quit" }

\* C1: round trip.  A get_config that follows update_config(c) with no update
\* or toggle in between returns a config equal to c in every field, with or
\* without a stored handle, and whether the update returned Ok or Err.
C1_RoundTrip ==
    [][\A c \in Callers :
          (pc[c] = "idle" /\ pc'[c] = "get_ret" /\ lastWrite.kind = "update")
              => loc'[c].got = lastWrite.cfg]_vars

\* get_config has returned the config of an update_config that returned Err
\* with a handle stored.
C1_Witness ==
    \E c \in Callers :
        /\ pc[c] = "get_ret"
        /\ lastWrite.kind = "update"
        /\ lastWrite.res = "Err"
        /\ lastWrite.cfg # DefaultConfig
        /\ hwnd # NoHwnd
        /\ loc[c].got = lastWrite.cfg

\* C2: toggle_overlay(e) changes the enabled field only.  When it returns,
\* enabled = e, and every other field of the stored config and the stored
\* handle are what they were when the call began.
C2_ToggleFrame ==
    \A c \in Callers :
        pc[c] \in {"toggle_InvalidateRect", "toggle_ret"} =>
            /\ config.enabled = arg[c].enabled
            /\ config = [loc[c].pre EXCEPT !.enabled = arg[c].enabled]
            /\ hwnd = loc[c].pre_hwnd

\* toggle_overlay is about to return, having flipped enabled on a stored
\* config that is not the default, with a handle stored.
C2_Witness ==
    \E c \in Callers :
        /\ pc[c] = "toggle_ret"
        /\ loc[c].pre.enabled # arg[c].enabled
        /\ loc[c].pre.size # DefaultConfig.size
        /\ loc[c].pre_hwnd # NoHwnd

\* C3: no thread holds the OVERLAY_STATE lock while it is inside a native
\* window or drawing call.
C3_LockNotHeldInNativeCall ==
    \A t \in Threads : lock = t => pc[t] \notin NativeCallSites

\* C4: no caller holds the lock, waiting for the owning thread to take the
\* messages of its window call, while the owning thread waits for the lock.
C4_NoLockWaitCycle ==
    ~ \E c \in Callers :
          /\ pc[c] = "SetWindowPos_wait"
          /\ lock = c
          /\ hwnd \in Owners
          /\ pc[hwnd] = "paint_lock"

\* C5: a caller thread never makes a resize or opacity call on the window
\* handle; those calls are made by the owning thread.
C5_NativeCallsOnOwningThread ==
    \A t \in Threads : pc[t] \in ResizeOpacitySites => t \in Owners

\* C6 as claimed: with a handle stored, the resize is made iff the bounding
\* box differs from the one of the previously stored config, and the opacity
\* is reapplied on every update, whatever the outcome of the resize.
C6_OpacityWhateverResizeOutcome ==
    \A c \in Callers :
        (pc[c] = "update_ret" /\ loc[c].had) =>
            /\ (loc[c].swp # "no") <=>
                   (WindowSize(arg[c].cfg) # WindowSize(loc[c].pre))
            /\ loc[c].alpha

\* C6, amended: with a handle stored, the resize is made iff the bounding box
\* differs from the one of the previously stored config; a resize that
\* succeeds leaves the window square with side 2*(size+gap) + 2*thickness + 20
\* and centered on the display; the opacity is reapplied (and the repaint
\* requested) exactly when the resize was not needed or succeeded, and then
\* update returns Ok; a failed resize makes update return Err at once.
C6_ResizePolicy ==
    \A c \in Callers :
        (pc[c] = "update_ret" /\ loc[c].had) =>
            LET cfg == arg[c].cfg
                side == 2 * (cfg.size + cfg.gap) + 2 * cfg.thickness + 20
            IN  /\ (loc[c].swp # "no") <=> (side # WindowSize(loc[c].pre))
                /\ (loc[c].swp = "ok" /\ win[hwnd].exists) =>
                       /\ win[hwnd].side = side
                       /\ 2 * win[hwnd].x + side \in {screen[1], screen[1] - 1}
                       /\ 2 * win[hwnd].y + side \in {screen[2], screen[2] - 1}
                /\ loc[c].alpha <=> (loc[c].swp # "fail")
                /\ loc[c].inval <=> (loc[c].swp # "fail")
                /\ (loc[c].res = "Ok") <=> (loc[c].swp # "fail")
                /\ (loc[c].res = "Err") <=> (loc[c].swp = "fail")
                /\ (loc[c].alpha /\ win[hwnd].exists) =>
                       win[hwnd].alpha = Alpha(cfg.opacity)

\* update_config is about to return Ok after a resize that succeeded, the
\* opacity reapplied.
C6_Witness ==
    \E c \in Callers :
        /\ pc[c] = "update_ret"
        /\ loc[c].had
        /\ loc[c].swp = "ok"
        /\ loc[c].alpha
        /\ loc[c].res = "Ok"
        /\ win[hwnd].exists

\* C7: the window create_overlay_window's thread creates is square with side
\* 54, the bounding box of the default config, at ((screen width - 54) / 2,
\* (screen height - 54) / 2).
C7_CreatedWindowRect ==
    \A o \in Owners :
        /\ created[o] # NoRect =>
               created[o] = [x |-> (screen[1] - 54) \div 2,
                             y |-> (screen[2] - 54) \div 2, side |-> 54]
        /\ pc[o] \in {"layered", "publish"} =>
               /\ win[o].side = 54
               /\ win[o].x = created[o].x
               /\ win[o].y = created[o].y

\* The window has just been created.
C7_Witness ==
    \E o \in Owners : pc[o] = "layered" /\ win[o].exists /\ created[o] # NoRect

\* C8: when window-class registration or window creation fails, no handle is
\* published, the loop is not entered, and the create_overlay_window call that
\* spawned the thread returns that failure.
C8_CreationFailureReported ==
    \A o \in Owners :
        threadRes[o] = "ErrCreateWindow" =>
            /\ hwnd # o
            /\ pc[o] = "exited"
            /\ createRet[o] = "Err"

\* C9: however often create_overlay_window is called, at most one owning
\* thread and at most one native window exist, and the stored handle is the
\* handle of that window.
C9_SingleOwnerSingleWindow ==
    /\ Cardinality({o \in Owners : pc[o] \notin {"unspawned", "exited"}}) <= 1
    /\ Cardinality({o \in Owners : win[o].exists}) <= 1
    /\ \A o \in Owners : (win[o].exists /\ hwnd # NoHwnd) => hwnd = o

\* C10: the handle is published before the message loop starts.  Whenever an
\* owning thread is in its loop a handle is stored, and never does a window
\* exist whose thread is past its creation steps with no handle stored.
C10_HandlePublishedBeforeLoop ==
    \A o \in Owners :
        /\ pc[o] \in InLoop => hwnd # NoHwnd
        /\ ~ (win[o].exists /\ pc[o] \in PastCreation /\ hwnd = NoHwnd)

\* The owning thread is in its message loop, its window's handle stored.
C10_Witness ==
    \E o \in Owners : pc[o] = "loop" /\ win[o].exists /\ hwnd = o

\* The owning thread of window o has a step to take: fair scheduling of the
\* thread takes it.  In its loop with nothing to paint, or gone, it has none.
OwnerHasStep(o) ==
    \/ pc[o] \notin {"loop", "exited"}
    \/ pc[o] = "loop" /\ win[o].exists /\ win[o].dirty

\* Every update_config and toggle_overlay call has returned, the last of them
\* found a handle stored, and the owning thread has nothing left to do.
AfterLastWrite(o) ==
    /\ hwnd = o
    /\ lastWrite.kind # "none"
    /\ lastWrite.had
    /\ \A c \in Callers : pc[c] = "idle"
    /\ ~OwnerHasStep(o)

\* C11: a paint renders the config stored when the handler reads the state,
\* and once update_config or toggle_overlay calls have completed with a
\* handle present a paint follows the last of them and renders the last
\* stored config.  In finite form: when every call has returned and the
\* owning thread has no step left, the last paint rendered the stored config.
C11_LastPaintRendersLastConfig ==
    \A o \in DOMAIN painted :
        AfterLastWrite(o) => painted[o].done /\ painted[o].cfg = config

\* The GDI calls that put pixels on the window, and those with coordinates.
DrawPrimitives == { "LineTo", "Ellipse" }
GeometryCalls == { "MoveToEx", "LineTo", "Ellipse" }

\* The indices of the calls of a pass that carry coordinates.
PassCalls(ops, pass) ==
    { i \in 1 .. Len(ops) : ops[i].pass = pass /\ ops[i].op \in GeometryCalls }

\* C12: a paint clears the client area first and draws only afterwards; with
\* enabled false it makes no draw call at all, with enabled true the render
\* center is the center of the client area plus (position_x, position_y),
\* and the dot, when drawn, is the box of half-side dot_size around it.
C12_RepaintPath ==
    frame.done =>
        LET ops == frame.ops
            cfg == canvas.cfg
            cx == (canvas.side \div 2) + cfg.position_x
            cy == (canvas.side \div 2) + cfg.position_y
        IN  /\ ops[1].op = "FillRect"
            /\ \A i \in 2 .. Len(ops) : ops[i].op # "FillRect"
            /\ ~cfg.enabled => Len(ops) = 1
            /\ cfg.enabled =>
                /\ frame.center = << cx, cy >>
                /\ cfg.show_dot =>
                    \E i \in PassCalls(ops, "dot") :
                        ops[i] = [Ellipse(cx - cfg.dot_size, cy - cfg.dot_size,
                                          cx + cfg.dot_size, cy + cfg.dot_size)
                                    EXCEPT !.pass = "dot"]

\* An enabled config off the center of an odd-sided client area was painted,
\* with its dot.
C12_Witness ==
    /\ frame.done
    /\ canvas.cfg.enabled
    /\ canvas.cfg.show_dot
    /\ canvas.cfg.position_x = -3
    /\ canvas.side = 75

\* The pen the device context has selected after the first i calls.
RECURSIVE SelectedPen(_, _)
SelectedPen(ops, i) ==
    IF i = 0
      THEN StockPen
      ELSE IF ops[i].op = "SelectObject" /\ ops[i].obj.kind = "pen"
             THEN ops[i].obj
             ELSE SelectedPen(ops, i - 1)

\* The brush the device context has selected after the first i calls.
RECURSIVE SelectedBrush(_, _)
SelectedBrush(ops, i) ==
    IF i = 0
      THEN StockBrush
      ELSE IF ops[i].op = "SelectObject" /\ ops[i].obj.kind = "brush"
             THEN ops[i].obj
             ELSE SelectedBrush(ops, i - 1)

\* The indices of the draw primitives of a pass, in the order of the calls.
PassDraws(ops, pass) ==
    LET InThePass(i) == ops[i].pass = pass /\ ops[i].op \in DrawPrimitives
    IN  SelectSeq([i \in 1 .. Len(ops) |-> i], InThePass)

\* The calls of a pass that carry coordinates, moved by (-d, -d), in order.
PassGeometry(ops, pass, d) ==
    LET InThePass(o) == o.pass = pass /\ o.op \in GeometryCalls
        sel == SelectSeq(ops, InThePass)
    IN  [k \in 1 .. Len(sel) |->
            IF sel[k].op = "Ellipse"
              THEN [sel[k] EXCEPT !.pass = "none", !.a = @ - d, !.b = @ - d,
                                  !.c = @ - d, !.d = @ - d]
              ELSE [sel[k] EXCEPT !.pass = "none", !.a = @ - d, !.b = @ - d]]

PassRank(pass) ==
    CASE pass = "shadow" -> 1
      [] pass = "outline" -> 2
      [] pass = "main" -> 3
      [] pass = "dot" -> 4

\* The passes come in the order shadow, outline, main, dot: the shadow pass
\* is there iff shadow_enabled and is the shape of the main pass at center +
\* (shadow_offset, shadow_offset), the outline pass is there iff show_outline
\* and is the shape of the main pass, and the dot is there iff show_dot, the
\* last draw primitive, a filled ellipse of radius dot_size in color.
PassOrder(ops, cfg) ==
    /\ \A i, j \in 1 .. Len(ops) :
          (/\ i < j
           /\ ops[i].op \in DrawPrimitives
           /\ ops[j].op \in DrawPrimitives)
              => PassRank(ops[i].pass) <= PassRank(ops[j].pass)
    /\ PassGeometry(ops, "shadow", cfg.shadow_offset) =
          IF cfg.shadow_enabled THEN PassGeometry(ops, "main", 0) ELSE << >>
    /\ PassGeometry(ops, "outline", 0) =
          IF cfg.show_outline THEN PassGeometry(ops, "main", 0) ELSE << >>
    /\ Len(PassDraws(ops, "dot")) = IF cfg.show_dot THEN 1 ELSE 0
    /\ \A k \in 1 .. Len(PassDraws(ops, "dot")) :
          LET i == PassDraws(ops, "dot")[k]
          IN  /\ ops[i].op = "Ellipse"
              /\ ops[i].c - ops[i].a = 2 * cfg.dot_size
              /\ ops[i].d - ops[i].b = 2 * cfg.dot_size
              /\ SelectedBrush(ops, i).color = ColorRef(cfg.color)
              /\ \A j \in i + 1 .. Len(ops) : ops[j].op \notin DrawPrimitives

\* Every draw primitive of the shadow pass is drawn with the shadow_color pen.
ShadowPassPen(ops, cfg) ==
    \A k \in 1 .. Len(PassDraws(ops, "shadow")) :
        SelectedPen(ops, PassDraws(ops, "shadow")[k]).color
            = ColorRef(cfg.shadow_color)

\* Every draw primitive of the outline pass is drawn with a pen of width
\* thickness + 2 * outline_thickness in outline_color, and every one of the
\* main pass in color.
ConfigPens(ops, cfg) ==
    /\ \A k \in 1 .. Len(PassDraws(ops, "outline")) :
          LET pen == SelectedPen(ops, PassDraws(ops, "outline")[k])
          IN  /\ pen.width = cfg.thickness + 2 * cfg.outline_thickness
              /\ pen.color = ColorRef(cfg.outline_color)
    /\ \A k \in 1 .. Len(PassDraws(ops, "main")) :
          SelectedPen(ops, PassDraws(ops, "main")[k]).color
              = ColorRef(cfg.color)

\* The k-th segment of the outline pass and of the main pass is drawn with
\* the pen of the k-th entry of lines: its thickness and its color.
LinePens(ops, cfg) ==
    \A pass \in { "outline", "main" } :
        \A k \in 1 .. Len(PassDraws(ops, pass)) :
            LET pen == SelectedPen(ops, PassDraws(ops, pass)[k])
            IN  /\ pen.width = cfg.lines[k].thickness
                /\ pen.color = ColorRef(cfg.lines[k].color)

\* C13 as stated: for every config and style, one render draws the shadow
\* pass (iff shadow_enabled, at center + shadow_offset, with the shadow_color
\* pen), then the outline pass (iff show_outline, pen width thickness +
\* 2 * outline_thickness in outline_color), then the main shape in color,
\* and the dot (iff show_dot) last.
C13_LayeringEveryStyle ==
    (frame.done /\ canvas.cfg.enabled) =>
        /\ PassOrder(frame.ops, canvas.cfg)
        /\ ShadowPassPen(frame.ops, canvas.cfg)
        /\ ConfigPens(frame.ops, canvas.cfg)

\* C13, amended: the order of the passes holds for every style, and the
\* shadow pass is drawn with the shadow_color pen; the outline pass and the
\* main pass use the outline pen and the pen in color for every style but
\* Custom, where each segment of both passes is drawn with its own line's
\* pen.
C13_Layering ==
    (frame.done /\ canvas.cfg.enabled) =>
        /\ PassOrder(frame.ops, canvas.cfg)
        /\ ShadowPassPen(frame.ops, canvas.cfg)
        /\ IF canvas.cfg.style = "Custom"
             THEN LinePens(frame.ops, canvas.cfg)
             ELSE ConfigPens(frame.ops, canvas.cfg)

\* A Custom config of two lines was rendered with every pass on.
C13_Witness ==
    /\ frame.done
    /\ canvas.cfg.enabled
    /\ canvas.cfg.style = "Custom"
    /\ Len(canvas.cfg.lines) = 2
    /\ canvas.cfg.shadow_enabled
    /\ canvas.cfg.show_outline
    /\ canvas.cfg.show_dot
    /\ Len(PassDraws(frame.ops, "outline")) = 2

\* One segment per entry of lines, in order: MoveToEx to (cx, cy) + start of
\* the entry, LineTo to (cx, cy) + end of the entry.
SegmentsOfLines(lines, cx, cy) ==
    [k \in 1 .. 2 * Len(lines) |->
        LET line == lines[(k + 1) \div 2]
        IN  IF k % 2 = 1
              THEN MoveToEx(cx + line.start_x, cy + line.start_y)
              ELSE LineTo(cx + line.end_x, cy + line.end_y)]

\* The number of line segments one render draws, over all its passes.
SegmentCount(ops) ==
    Cardinality({ i \in 1 .. Len(ops) : ops[i].op = "LineTo" })

\* C14 as stated: whatever show_outline, shadow_enabled and show_dot are, one
\* render of a Custom config draws exactly Len(lines) segments, the k-th
\* from center + start to center + end of the k-th entry.
C14_CustomExactlyLenLines ==
    (frame.done /\ canvas.cfg.enabled /\ canvas.cfg.style = "Custom") =>
        /\ SegmentCount(frame.ops) = Len(canvas.cfg.lines)
        /\ PassGeometry(frame.ops, "main", 0) =
              SegmentsOfLines(canvas.cfg.lines, frame.center[1],
                              frame.center[2])

\* C14, amended: each pass of one render of a Custom config draws exactly
\* Len(lines) segments, one per entry in order, from c + start to c + end of
\* the entry, where c is the center in the main pass and in the outline pass
\* (run iff show_outline) and center + (shadow_offset, shadow_offset) in the
\* shadow pass (run iff shadow_enabled); the render draws Len(lines) segments
\* once for each pass it runs.
C14_CustomLenLinesPerPass ==
    (frame.done /\ canvas.cfg.enabled /\ canvas.cfg.style = "Custom") =>
        LET cfg == canvas.cfg
            cx == frame.center[1]
            cy == frame.center[2]
            passes == 1 + (IF cfg.show_outline THEN 1 ELSE 0)
                        + (IF cfg.shadow_enabled THEN 1 ELSE 0)
        IN  /\ PassGeometry(frame.ops, "main", 0) =
                  SegmentsOfLines(cfg.lines, cx, cy)
            /\ PassGeometry(frame.ops, "outline", 0) =
                  IF cfg.show_outline
                    THEN SegmentsOfLines(cfg.lines, cx, cy)
                    ELSE << >>
            /\ PassGeometry(frame.ops, "shadow", 0) =
                  IF cfg.shadow_enabled
                    THEN SegmentsOfLines(cfg.lines, cx + cfg.shadow_offset,
                                         cy + cfg.shadow_offset)
                    ELSE << >>
            /\ SegmentCount(frame.ops) = passes * Len(cfg.lines)

\* A Custom config of two lines was rendered with the shadow pass and the
\* outline pass on: six segments.
C14_Witness ==
    /\ frame.done
    /\ canvas.cfg.enabled
    /\ canvas.cfg.style = "Custom"
    /\ Len(canvas.cfg.lines) = 2
    /\ canvas.cfg.shadow_enabled
    /\ canvas.cfg.show_outline
    /\ SegmentCount(frame.ops) = 6

\* C15: one render of a config of style Dot draws no shape in any pass
\* (shadow, outline, main), and draws the dot exactly once when show_dot is
\* true and not at all when it is false.
C15_DotStyle ==
    (frame.done /\ canvas.cfg.enabled /\ canvas.cfg.style = "Dot") =>
        /\ \A pass \in { "shadow", "outline", "main" } :
              PassCalls(frame.ops, pass) = {}
        /\ Len(PassDraws(frame.ops, "dot")) =
              IF canvas.cfg.show_dot THEN 1 ELSE 0
        /\ Cardinality({ i \in 1 .. Len(frame.ops) :
                            frame.ops[i].op \in DrawPrimitives }) =
              IF canvas.cfg.show_dot THEN 1 ELSE 0

\* A Dot config was rendered with the shadow pass, the outline pass and the
\* dot on.
C15_Witness ==
    /\ frame.done
    /\ canvas.cfg.enabled
    /\ canvas.cfg.style = "Dot"
    /\ canvas.cfg.shadow_enabled
    /\ canvas.cfg.show_outline
    /\ canvas.cfg.show_dot
    /\ Len(PassDraws(frame.ops, "dot")) = 1

\* C16: with rotation 0 the four Classic segments have the unrotated ends,
\* for every center, gap and size of the inputs: top (cx, cy-gap-size) to
\* (cx, cy-gap), bottom (cx, cy+gap) to (cx, cy+gap+size), left
\* (cx-gap-size, cy) to (cx-gap, cy), right (cx+gap, cy) to (cx+gap+size, cy).
C16_RotationIdentity ==
    (/\ frame.done
     /\ canvas.cfg.enabled
     /\ canvas.cfg.style = "Classic"
     /\ canvas.cfg.rotation = 0) =>
        LET cx == frame.center[1]
            cy == frame.center[2]
            gap == canvas.cfg.gap
            size == canvas.cfg.size
        IN  PassGeometry(frame.ops, "main", 0) =
               << MoveToEx(cx, cy - gap - size), LineTo(cx, cy - gap),
                  MoveToEx(cx, cy + gap), LineTo(cx, cy + gap + size),
                  MoveToEx(cx - gap - size, cy), LineTo(cx - gap, cy),
                  MoveToEx(cx + gap, cy), LineTo(cx + gap + size, cy) >>

\* A Classic config with rotation 0, gap 2 and size 3 was rendered off the
\* center of an odd-sided client area.
C16_Witness ==
    /\ frame.done
    /\ canvas.cfg.enabled
    /\ canvas.cfg.style = "Classic"
    /\ canvas.cfg.rotation = 0
    /\ canvas.cfg.gap = 2
    /\ canvas.cfg.size = 3
    /\ canvas.cfg.position_x = -3
    /\ canvas.side = 75
    /\ Len(PassGeometry(frame.ops, "main", 0)) = 8

\* The stored preset list: what presets.json holds, as load_presets reads it.
StoredPresets(d) ==
    IF d.dir /\ d.presets.exists
      THEN UnwrapOrEmpty(FromStrFavorites(d.presets.text))
      ELSE << >>

\* The places of the entries of a list that carry an id.
PlacesOf(presets, id) == { i \in 1 .. Len(presets) : presets[i].id = id }

\* A save_preset call returned Ok for a preset whose id was stored already.
SavedOverExisting ==
    /\ call.op = "save_preset"
    /\ call.ret.ok
    /\ PlacesOf(StoredPresets(call.before), call.id) # {}

\* C17: after any sequence of save_preset and delete_preset calls the stored
\* list has at most one entry per id, and the entry of an id is the preset
\* saved last with that id, if it was not deleted since.
C17_PresetIdsUnique ==
    \A id \in DOMAIN latest :
        LET presets == StoredPresets(disk)
            places == PlacesOf(presets, id)
        IN  /\ Cardinality(places) <= 1
            /\ latest[id] = NoPreset => places = {}
            /\ latest[id] # NoPreset =>
                  \E i \in places : presets[i] = latest[id]

\* The preset of an id was saved a second time under another name, with the
\* preset of another id stored too.
C17_Witness ==
    /\ SavedOverExisting
    /\ \E i \in PlacesOf(StoredPresets(call.before), call.id) :
          StoredPresets(call.before)[i].name # call.preset.name
    /\ Len(StoredPresets(disk)) = 2

\* C18 as stated: a preset saved under an id that is stored already takes
\* the place of the old entry, and every other entry keeps its place.
C18_ReplacedInPlace ==
    SavedOverExisting =>
        \E k \in PlacesOf(StoredPresets(call.before), call.id) :
            StoredPresets(disk) =
                [StoredPresets(call.before) EXCEPT ![k] = call.preset]

\* C18, amended: a preset saved under an id that is stored already leaves
\* the list without the old entry of that id and with the saved preset at
\* the end; the entries with other ids keep their contents and their order.
C18_ReplacedAtEnd ==
    SavedOverExisting =>
        LET OtherId(p) == p.id # call.id
            others == SelectSeq(StoredPresets(call.before), OtherId)
            after == StoredPresets(disk)
        IN  /\ Len(after) = Len(others) + 1
            /\ after[Len(after)] = call.preset
            /\ SubSeq(after, 1, Len(others)) = others

\* The first of two stored presets was saved again: it is now the last.
C18_Witness ==
    /\ SavedOverExisting
    /\ Len(StoredPresets(call.before)) = 2
    /\ StoredPresets(call.before)[1].id = call.id
    /\ StoredPresets(disk)[2] = call.preset

\* C19: with the config directory at hand and config.json absent,
\* load_config returns Ok with the default config; with presets.json absent,
\* load_presets returns Ok with the empty list; neither creates the file.
C19_MissingFileLoads ==
    /\ (call.op = "load_config" /\ call.before.dir
            /\ ~call.before.config.exists) =>
          /\ call.ret.ok
          /\ call.ret.config = DefaultConfig
          /\ disk = call.before
    /\ (call.op = "load_presets" /\ call.before.dir
            /\ ~call.before.presets.exists) =>
          /\ call.ret.ok
          /\ call.ret.presets = << >>
          /\ disk = call.before

\* load_config ran with config.json absent and presets.json holding a preset.
C19_Witness ==
    /\ call.op = "load_config"
    /\ call.before.dir
    /\ ~call.before.config.exists
    /\ call.ret.ok
    /\ StoredPresets(disk) # << >>

\* A load ran on a file that exists, was read, and does not parse.
LoadedMalformed(op, file) ==
    /\ call.op = op
    /\ call.before.dir
    /\ file.exists
    /\ file.text.shape = "malformed"
    /\ call.io # "read_to_string"

\* C20: a load of a file whose content does not parse falls back: load_config
\* returns Ok with the default config, load_presets Ok with the empty list,
\* and neither returns the parse failure.
C20_MalformedFallsBack ==
    /\ (call.op = "load_config"
            /\ LoadedMalformed("load_config", call.before.config)) =>
          /\ call.ret.ok
          /\ call.ret.config = DefaultConfig
    /\ (call.op = "load_presets"
            /\ LoadedMalformed("load_presets", call.before.presets)) =>
          /\ call.ret.ok
          /\ call.ret.presets = << >>

\* A delete_preset call, none of whose file system calls failed, ran with
\* the config directory at hand on an id that no stored preset carries.
DeletedUnknownId ==
    /\ call.op = "delete_preset"
    /\ call.before.dir
    /\ call.io = "ok"
    /\ PlacesOf(StoredPresets(call.before), call.id) = {}

\* C21: delete_preset with an id that matches no stored preset returns Ok
\* and leaves the preset store as it was: the same entries in the same order,
\* and presets.json there or absent as before, whatever the store held.
C21_DeleteUnknownIdNoOp ==
    DeletedUnknownId =>
        /\ call.ret.ok
        /\ StoredPresets(disk) = StoredPresets(call.before)
        /\ disk.presets.exists = call.before.presets.exists
        /\ disk.config = call.before.config

\* delete_preset ran on an id not stored, with a preset of another id stored.
C21_Witness ==
    /\ DeletedUnknownId
    /\ call.ret.ok
    /\ Len(StoredPresets(call.before)) = 1

\* The calls that create a pen or a brush, and the places of the calls that
\* release the object created at place i.
CreateCalls == { "CreatePen", "CreateSolidBrush" }
ReleasesOf(ops, i) ==
    { j \in i + 1 .. Len(ops) :
        ops[j].op = "DeleteObject" /\ ops[j].obj = ops[i].obj }

\* Every pen and brush one render creates is released before it returns.
AllReleased(ops) ==
    \A i \in 1 .. Len(ops) :
        ops[i].op \in CreateCalls => ReleasesOf(ops, i) # {}

\* No pen or brush is released while the device context has it selected.
ReleasedDeselected(ops) ==
    \A j \in 1 .. Len(ops) :
        ops[j].op = "DeleteObject" =>
            /\ SelectedPen(ops, j - 1) # ops[j].obj
            /\ SelectedBrush(ops, j - 1) # ops[j].obj

\* At return the device context has its own pen and brush selected again.
OriginalsRestored(ops) ==
    /\ SelectedPen(ops, Len(ops)) = StockPen
    /\ SelectedBrush(ops, Len(ops)) = StockBrush

\* C22: for every config, every pen and brush created during one render is
\* released before the render returns, none is released before it has been
\* deselected from the device context, and at return the device context has
\* its original pen and brush selected again.
C22_ScopedDrawingResources ==
    (frame.done /\ canvas.cfg.enabled) =>
        /\ AllReleased(frame.ops)
        /\ ReleasedDeselected(frame.ops)
        /\ OriginalsRestored(frame.ops)

\* The T of TShape: the bar from (cx - t_length, cy - gap - size) to
\* (cx + t_length, cy - gap - size) and the stem from (cx, cy - gap - size)
\* to (cx, cy - gap).
TBarAndStem(cfg, cx, cy) ==
    << MoveToEx(cx - cfg.t_length, cy - cfg.gap - cfg.size),
       LineTo(cx + cfg.t_length, cy - cfg.gap - cfg.size),
       MoveToEx(cx, cy - cfg.gap - cfg.size),
       LineTo(cx, cy - cfg.gap) >>

\* The bottom, left and right segments with the ends of rotation 0.
UnrotatedBottomLeftRight(cfg, cx, cy) ==
    << MoveToEx(cx, cy + cfg.gap), LineTo(cx, cy + cfg.gap + cfg.size),
       MoveToEx(cx - cfg.gap - cfg.size, cy), LineTo(cx - cfg.gap, cy),
       MoveToEx(cx + cfg.gap, cy), LineTo(cx + cfg.gap + cfg.size, cy) >>

\* One ellipse of radius size + gap, or one closed polygon of four edges of
\* half-extent size + gap, followed by the four segments Classic draws for
\* the config (its rotation applied) iff gap > 0.
CircleAndSquareShapes(ops, cfg, cx, cy) ==
    LET e == cfg.size + cfg.gap
        classic == IF cfg.gap > 0
                     THEN DrawClassicCrosshair(cx, cy, cfg)
                     ELSE << >>
    IN  /\ cfg.style = "Circle" =>
              PassGeometry(ops, "main", 0) =
                  << Ellipse(cx - e, cy - e, cx + e, cy + e) >> \o classic
        /\ cfg.style = "Square" =>
              PassGeometry(ops, "main", 0) =
                  << MoveToEx(cx - e, cy - e), LineTo(cx + e, cy - e),
                     LineTo(cx + e, cy + e), LineTo(cx - e, cy + e),
                     LineTo(cx - e, cy - e) >> \o classic

\* C23 as stated: TShape draws the bar and the stem, plus the bottom, left
\* and right Classic segments (those Classic draws for the config) iff
\* gap > 0; Circle draws one ellipse of radius size + gap and Square one
\* closed 4-edge polygon of half-extent size + gap, each followed by the four
\* Classic segments iff gap > 0.
C23_StyleShapes ==
    (frame.done /\ canvas.cfg.enabled) =>
        LET cfg == canvas.cfg
            cx == frame.center[1]
            cy == frame.center[2]
        IN  /\ CircleAndSquareShapes(frame.ops, cfg, cx, cy)
            /\ cfg.style = "TShape" =>
                  PassGeometry(frame.ops, "main", 0) =
                      TBarAndStem(cfg, cx, cy)
                      \o (IF cfg.gap > 0
                            THEN SubSeq(DrawClassicCrosshair(cx, cy, cfg),
                                        3, 8)
                            ELSE << >>)

\* C23, amended: as stated for Circle and Square, whose four Classic
\* segments have the rotation of the config applied; the bottom, left and
\* right segments of TShape are drawn iff gap > 0 with the unrotated ends,
\* whatever the rotation is.
C23_StyleShapesUnrotatedT ==
    (frame.done /\ canvas.cfg.enabled) =>
        LET cfg == canvas.cfg
            cx == frame.center[1]
            cy == frame.center[2]
        IN  /\ CircleAndSquareShapes(frame.ops, cfg, cx, cy)
            /\ cfg.style = "TShape" =>
                  PassGeometry(frame.ops, "main", 0) =
                      TBarAndStem(cfg, cx, cy)
                      \o (IF cfg.gap > 0
                            THEN UnrotatedBottomLeftRight(cfg, cx, cy)
                            ELSE << >>)

\* A TShape config with a gap and a rotation of 45 degrees was rendered:
\* five segments.
C23_Witness ==
    /\ frame.done
    /\ canvas.cfg.enabled
    /\ canvas.cfg.style = "TShape"
    /\ canvas.cfg.gap = 2
    /\ canvas.cfg.size = 3
    /\ canvas.cfg.rotation = 45
    /\ Len(PassGeometry(frame.ops, "main", 0)) = 10

-----------------------------------------------------------------------------
\* The hotkey handler has written: toggle_overlay(new_enabled) has stored
\* the flag.
HotkeyWrote == hotkey.stage \in {"toggle_overlay", "emit"}

\* The handler's last act was to emit the event of its last write.
HotkeyEmitted == hotkey.emitted /\ ~HotkeyWrote

\* C24: for every interleaving of the hotkey handler with tray toggles and
\* update calls, each trigger flips the stored enabled flag relative to its
\* value immediately before the handler's write, and the published boolean
\* is the stored flag immediately after that write.
C24_HotkeyToggleAtomic ==
    /\ HotkeyWrote => /\ hotkey.after = ~hotkey.before
                      /\ hotkey.new_enabled = hotkey.after
    /\ HotkeyEmitted => hotkey.published = hotkey.after

-----------------------------------------------------------------------------
\* The statements of an update_config call.
UpdateSites ==
    { "SetWindowPos", "SetWindowPos_wait", "SetLayeredWindowAttributes",
      "InvalidateRect", "update_ret" }

\* The window of owner o is Active: its handle is published, it exists, and
\* its owning thread is in the message loop or in a paint handler of it.
Active(o) ==
    /\ hwnd = o
    /\ win[o].exists
    /\ pc[o] \in {"loop", "paint_lock", "paint_draw"}

\* C25: whenever the window is Active and no update call is in progress, the
\* window's side is 2*(size+gap) + 2*thickness + 20 of the stored config, for
\* every ordering of create, update and toggle calls.
C25_WindowSizeTracksConfig ==
    \A o \in Owners :
        (Active(o) /\ \A c \in Callers : pc[c] \notin UpdateSites) =>
            win[o].side =
                2 * (config.size + config.gap) + 2 * config.thickness + 20

-----------------------------------------------------------------------------
\* The window of owner o is Destroyed: its owning thread's message loop has
\* exited on the WM_QUIT its WM_DESTROY posted, and the window is gone.
Destroyed(o) ==
    /\ pc[o] = "exited"
    /\ threadRes[o] = "Ok"
    /\ ~win[o].exists

\* The statements at which update_config and toggle_overlay make a resize,
\* opacity or invalidate call on the stored handle.
HandleCallSites ==
    { "SetWindowPos", "SetWindowPos_wait", "SetLayeredWindowAttributes",
      "InvalidateRect", "toggle_InvalidateRect" }

\* C26: once the owning thread's message loop has exited on a destroy signal,
\* no update or toggle call that starts later makes a resize, opacity or
\* invalidate call on the destroyed window's handle.
C26_NoNativeCallOnDeadWindow ==
    [][\A c \in Callers, o \in Owners :
          (Destroyed(o) /\ pc[c] = "idle")
              => ~(pc'[c] \in HandleCallSites /\ hwnd = o)]_vars

====
